---- MODULE Spec2Model ----
(***************************************************************************)
(* Model of the retrieval-augmented query endpoint of tum_assistant:       *)
(* src/app/api/prof-query/route.ts (the POST handler and its helpers).     *)
(*                                                                         *)
(* Text is modelled as a sequence of UTF-16 code units, each a one-        *)
(* character string.  Similarity scores are fixed-point hundredths: the    *)
(* score 0.50 is 50, the boosts 0.08 and 0.03 are 8 and 3.                  *)
(***************************************************************************)
EXTENDS Integers, Sequences, FiniteSets, TLC

VARIABLES
    body,               \* the request body as req.json() yields it
    pc,                 \* orchestration state of the request
    pending,            \* the external call the handler awaits, or "none"
    calls,              \* number of invocations of each external operation
    outcome,            \* how each external operation ended, if it has
    rewrittenQuestion,  \* const rewrittenQuestion (route.ts:213)
    intent,             \* const intent (route.ts:214)
    rawMatches,         \* const rawMatches (route.ts:221)
    boosted,            \* const boosted (route.ts:232)
    picked,             \* const picked (route.ts:239)
    context,            \* const context (route.ts:263)
    answer,             \* const answer (route.ts:266)
    embedInput,         \* input of openai.embeddings.create (route.ts:63)
    responses,          \* the responses the handler has returned, in order
    replied,            \* choices[0]?.message?.content of each chat completion
    arg,                \* argument of a helper applied on its own
    ret,                \* what the helper returned for arg
    chat,               \* state of the chat page: messages, input, loading, error
    payloadMessages,    \* const payloadMessages of the last request posted
    inFlight            \* number of posted requests not yet settled

vars == <<body, pc, pending, calls, outcome, rewrittenQuestion, intent, rawMatches,
          boosted, picked, context, answer, embedInput, responses, replied,
          arg, ret, chat, payloadMessages, inFlight>>

(***************************************************************************)
(* Bounds of the model.                                                    *)
(***************************************************************************)
MaxFragments == 2       \* a classified text is built of at most this many fragments
MaxTurns == 2           \* a request carries at most this many conversation turns
MaxMatches == 2         \* the vector index returns at most this many matches to a request
MaxRetrieved == 9       \* longest candidate list the ranker is started on
MaxUnits == 4           \* a sanitized text has at most this many code units
MaxSends == 8           \* the chat page posts at most this many requests

(***************************************************************************)
(* JavaScript strings.                                                     *)
(***************************************************************************)
\* A value that is either a string or missing (undefined / null).
Undefined == [defined |-> FALSE, s |-> <<>>]
Str(s) == [defined |-> TRUE, s |-> s]

\* (v || ""): a missing value and the empty string both read as "".
OrEmpty(v) == IF v.defined THEN v.s ELSE <<>>

Whitespace == {" ", "\n", "\t"}

UpperLetters ==
    <<"A","B","C","D","E","F","G","H","I","J","K","L","M",
      "N","O","P","Q","R","S","T","U","V","W","X","Y","Z">>
LowerLetters ==
    <<"a","b","c","d","e","f","g","h","i","j","k","l","m",
      "n","o","p","q","r","s","t","u","v","w","x","y","z">>

LowerChar(c) ==
    IF \E k \in 1..Len(UpperLetters) : UpperLetters[k] = c
    THEN LowerLetters[CHOOSE k \in 1..Len(UpperLetters) : UpperLetters[k] = c]
    ELSE c

\* String.prototype.toLowerCase
toLowerCase(s) == [i \in 1..Len(s) |-> LowerChar(s[i])]

\* Op applied to the value of v, v being evaluated once.
Then(v, Op(_)) == CHOOSE r \in {Op(x) : x \in {v}} : TRUE

SetMin(S) == CHOOSE x \in S : \A y \in S : x <= y
SetMax(S) == CHOOSE x \in S : \A y \in S : y <= x

\* The n-th smallest element of a set of numbers.
Nth(S, n) == CHOOSE x \in S : Cardinality({y \in S : y <= x}) = n

NonWhitespaceAt(s) == {k \in 1..Len(s) : s[k] \notin Whitespace}

\* String.prototype.trim: what lies between the first and the last code
\* unit that is not whitespace.
trim(s) ==
    IF NonWhitespaceAt(s) = {} THEN <<>>
    ELSE SubSeq(s, SetMin(NonWhitespaceAt(s)), SetMax(NonWhitespaceAt(s)))

\* Whether one of the alternatives of an unanchored pattern /(a|b|...)/
\* matches s at position i.
MatchesAt(terms, s, i) ==
    \E t \in terms :
        /\ i + Len(t) - 1 <= Len(s)
        /\ \A k \in 1..Len(t) : s[i + k - 1] = t[k]

\* RegExp.prototype.test for /(a|b|...)/: try each start position in turn.
RECURSIVE TestFrom(_, _, _)
TestFrom(terms, s, i) ==
    IF i > Len(s) THEN FALSE
    ELSE IF MatchesAt(terms, s, i) THEN TRUE
    ELSE TestFrom(terms, s, i + 1)

(***************************************************************************)
(* Intent classifier (route.ts:78-83).                                     *)
(***************************************************************************)
HousingTerms ==
    { <<"d","o","r","m">>, <<"r","e","n","t">>, <<"r","o","o","m">>,
      <<"a","p","a","r","t","m","e","n","t">>,
      <<"h","o","u","s","i","n","g">>,
      <<"w","o","h","n","h","e","i","m">> }

StudyTerms ==
    { <<"s","t","u","d","y">>, <<"l","i","b","r","a","r","y">>,
      <<"q","u","i","e","t">>, <<"w","i","f","i">>, <<"o","p","e","n">>,
      <<"c","a","f","e">>, <<"o","u","t","l","e","t">>,
      <<"s","o","c","k","e","t">> }

Intents == {"dorm", "study_place", "general"}

\* The classifier with the two tests in the wrong order.
inferIntentStudyFirst(q) ==
    LET s == toLowerCase(OrEmpty(q))
    IN  IF TestFrom(StudyTerms, s, 1) THEN "study_place"
        ELSE IF TestFrom(HousingTerms, s, 1) THEN "dorm"
        ELSE "general"

inferIntent(q) ==
    LET s == toLowerCase(OrEmpty(q))
    IN  IF TestFrom(HousingTerms, s, 1) THEN "dorm"
        ELSE IF TestFrom(StudyTerms, s, 1) THEN "study_place"
        ELSE "general"

(***************************************************************************)
(* Program constants.                                                      *)
(***************************************************************************)
TopK == 18              \* pineconeQuery({ vector: qVec, topK: 18 })
MaxPicked == 8          \* if (picked.length >= 8) break
DormBoost == 8          \* 0.08
StudyBoost == 8         \* 0.08
GeneralBoost == 3       \* 0.03
PreviewLen == 220       \* makePreview(..., 220)

(***************************************************************************)
(* Text sanitizer / truncator (route.ts:46-57).                            *)
(***************************************************************************)
\* Code units of the surrogate range \uD800-\uDFFF, named by their value.
HighSurrogates == {"<D83D>"}
LowSurrogates == {"<DE00>"}
Surrogates == HighSurrogates \cup LowSurrogates

IsNotSurrogate(c) == c \notin Surrogates

\* s.replace(/[\uD800-\uDFFF]/g, ""): the class matches every code unit of
\* the surrogate range.
stripLoneSurrogates(s) == SelectSeq(s, IsNotSurrogate)

\* Array.from(s) splits the string into code points, a high surrogate
\* followed by a low one being a single element: the positions where a
\* code point starts.
CodePointStarts(s) ==
    {k \in 1..Len(s) :
        ~(k > 1 /\ s[k] \in LowSurrogates /\ s[k - 1] \in HighSurrogates)}

\* Array.from(s).slice(0, maxLen).join(""): the first maxLen code points.
safeTruncateByCodepoints(s, maxLen) ==
    IF Cardinality(CodePointStarts(s)) <= maxLen THEN s
    ELSE SubSeq(s, 1, Nth(CodePointStarts(s), maxLen + 1) - 1)

\* The code units s.replace(/\s+/g, " ") keeps: those that are not
\* whitespace, and the first of each run of whitespace.
KeptByCollapse(s) ==
    {k \in 1..Len(s) :
        s[k] \notin Whitespace \/ k = 1 \/ s[k - 1] \notin Whitespace}

\* s.replace(/\s+/g, " ")
CollapseWhitespace(s) ==
    [j \in 1..Cardinality(KeptByCollapse(s)) |->
        LET c == s[Nth(KeptByCollapse(s), j)]
        IN  IF c \in Whitespace THEN " " ELSE c]

\* stripLoneSurrogates(safeTruncateByCodepoints(
\*     (s || "").replace(/\s+/g, " ").trim(), maxLen))
makePreview(s, maxLen) ==
    Then(Then(Then(Then(s, CollapseWhitespace), trim),
              LAMBDA x : safeTruncateByCodepoints(x, maxLen)),
         stripLoneSurrogates)

(***************************************************************************)
(* Candidates: the records the vector index returns.  A metadata field     *)
(* that is absent is the empty string: every reader takes it through a     *)
(* truthiness test or (x || ""), which treat the two alike, and a match    *)
(* without metadata is read as one with no field set (m.metadata || {}).   *)
(***************************************************************************)
\* a || b on strings
Or(a, b) == IF a # <<>> THEN a ELSE b

\* Number(m.score ?? 0)
baseScore(m) == IF m.hasScore THEN m.score ELSE 0

TypeDorm == <<"d","o","r","m">>
TypeStudyPlace == <<"s","t","u","d","y","_","p","l","a","c","e">>
TypeText == <<"t","e","x","t">>
TypeTextChunk == <<"t","e","x","t","_","c","h","u","n","k">>

\* The boost with the type compared as stored, not lower-cased.
scoreBoostCaseSensitive(match, forIntent) ==
    LET md == match.metadata
        t == Or(md.entity_type, md.kind)
    IN  IF forIntent = "dorm" /\ t = TypeDorm THEN DormBoost
        ELSE IF forIntent = "study_place" /\ t = TypeStudyPlace THEN StudyBoost
        ELSE IF forIntent = "general" /\ (t = TypeText \/ t = TypeTextChunk)
             THEN GeneralBoost
        ELSE 0

scoreBoost(match, forIntent) ==
    LET md == match.metadata
        t == toLowerCase(Or(md.entity_type, md.kind))
    IN  IF forIntent = "dorm" /\ t = TypeDorm THEN DormBoost
        ELSE IF forIntent = "study_place" /\ t = TypeStudyPlace THEN StudyBoost
        ELSE IF forIntent = "general" /\ (t = TypeText \/ t = TypeTextChunk)
             THEN GeneralBoost
        ELSE 0

\* The key without the name and section fallbacks.
dedupeKeyIdOnly(match) ==
    LET md == match.metadata
    IN  IF md.entity_type # <<>> /\ md.entity_id # <<>>
        THEN md.entity_type \o <<":">> \o md.entity_id
        ELSE <<"i","d",":">> \o match.id

dedupeKey(match) ==
    LET md == match.metadata
    IN  IF md.entity_type # <<>> /\ md.entity_id # <<>>
        THEN md.entity_type \o <<":">> \o md.entity_id
        ELSE IF md.name # <<>> THEN <<"n","a","m","e",":">> \o md.name
        ELSE IF md.section # <<>>
             THEN <<"s","e","c","t","i","o","n",":">> \o md.section
        ELSE <<"i","d",":">> \o match.id

(***************************************************************************)
(* Boost, sort and dedupe (route.ts:232-253).                              *)
(***************************************************************************)
\* rawMatches.map(m => ({...m, _boostedScore})): pos is the identity of the
\* object, its index in rawMatches.
WithBoost(matches, forIntent) ==
    [i \in 1..Len(matches) |->
        [id |-> matches[i].id,
         hasScore |-> matches[i].hasScore,
         score |-> matches[i].score,
         metadata |-> matches[i].metadata,
         _boostedScore |-> baseScore(matches[i]) + scoreBoost(matches[i], forIntent),
         pos |-> i]]

\* The comparator (a, b) => b._boostedScore - a._boostedScore.
Compare(a, b) == b._boostedScore - a._boostedScore

\* The order with ties put in reverse.
PrecedesTiesReversed(seq, i, j) ==
    \/ Compare(seq[i], seq[j]) < 0
    \/ Compare(seq[i], seq[j]) = 0 /\ i > j

\* Array.prototype.sort is stable: seq[i] comes before seq[j] when the
\* comparator orders it first, or ties them and i is before j.
Precedes(seq, i, j) ==
    \/ Compare(seq[i], seq[j]) < 0
    \/ Compare(seq[i], seq[j]) = 0 /\ i < j

\* .sort((a, b) => ...): the element at place r is the one r - 1 others
\* precede.
Sort(seq) ==
    [r \in 1..Len(seq) |->
        seq[CHOOSE i \in 1..Len(seq) :
                Cardinality({j \in 1..Len(seq) :
                                j # i /\ Precedes(seq, j, i)}) = r - 1]]

\* rawMatches.map(...).sort(...)
Boosted(matches, forIntent) == Then(WithBoost(matches, forIntent), Sort)

\* The loop without the test for usable text.
RECURSIVE PickLoopNoTextTest(_, _, _, _)
PickLoopNoTextTest(sorted, i, acc, seen) ==
    IF i > Len(sorted) \/ Len(acc) >= MaxPicked THEN acc
    ELSE IF dedupeKey(sorted[i]) \in seen
         THEN PickLoopNoTextTest(sorted, i + 1, acc, seen)
         ELSE PickLoopNoTextTest(sorted, i + 1, Append(acc, sorted[i]),
                                 seen \cup {dedupeKey(sorted[i])})

\* The loop without the test of the key against seen.
RECURSIVE PickLoopNoDedupe(_, _, _, _)
PickLoopNoDedupe(sorted, i, acc, seen) ==
    IF i > Len(sorted) \/ Len(acc) >= MaxPicked THEN acc
    ELSE IF trim(sorted[i].metadata.text) = <<>>
         THEN PickLoopNoDedupe(sorted, i + 1, acc, seen)
         ELSE PickLoopNoDedupe(sorted, i + 1, Append(acc, sorted[i]), seen)

\* for (const m of boosted) { ... }: acc is picked, seen the set of keys.
RECURSIVE PickLoop(_, _, _, _)
PickLoop(sorted, i, acc, seen) ==
    IF i > Len(sorted) \/ Len(acc) >= MaxPicked THEN acc
    ELSE LET m == sorted[i]
             key == dedupeKey(m)
         IN  IF key \in seen THEN PickLoop(sorted, i + 1, acc, seen)
             ELSE IF trim(m.metadata.text) = <<>>
                  THEN PickLoop(sorted, i + 1, acc, seen)
                  ELSE PickLoop(sorted, i + 1, Append(acc, m),
                                seen \cup {key})

Picked(sorted) == PickLoop(sorted, 1, <<>>, {})

(***************************************************************************)
(* Response projection and context assembly (route.ts:102-133).            *)
(***************************************************************************)
matchesToClient(matches, forIntent) ==
    [i \in 1..Len(matches) |->
        LET m == matches[i]
            md == m.metadata
        IN  [score |-> baseScore(m),
             boostedScore |-> baseScore(m) + scoreBoost(m, forIntent),
             type |-> Or(md.entity_type,
                         Or(md.kind, <<"u","n","k","n","o","w","n">>)),
             title |-> Or(md.name, Or(md.section, Or(md.chunk_block,
                          Or(md.chunkBlock,
                             <<"(","r","e","s","u","l","t",")">>)))),
             snippet |-> IF md.text_preview # <<>>
                         THEN makePreview(md.text_preview, PreviewLen)
                         ELSE makePreview(md.text, PreviewLen)]]

\* One labelled block per selected candidate; the blocks are the pieces
\* the code joins with "\n\n---\n\n".
buildContext(matches) ==
    [i \in 1..Len(matches) |->
        LET md == matches[i].metadata
        IN  [source |-> i,
             type |-> Or(md.entity_type,
                         Or(md.kind, <<"u","n","k","n","o","w","n">>)),
             title |-> Or(md.name, Or(md.section, Or(md.chunk_block,
                          <<"(","u","n","t","i","t","l","e","d",")">>))),
             text |-> trim(stripLoneSurrogates(md.text))]]

(***************************************************************************)
(* Inputs: what the vector index may return.  The candidate returned at    *)
(* position i is a plain one with text and a key of its own, or an odd one *)
(* (no usable text, a key shared with others, a type in upper case, no     *)
(* score), or, at the first two positions, one without metadata.           *)
(***************************************************************************)
IdOf(i) == <<LowerLetters[i]>>

Metadata(entity_type, kind, entity_id, name, section, text) ==
    [entity_type |-> entity_type, kind |-> kind, entity_id |-> entity_id,
     name |-> name, section |-> section, text |-> text,
     text_preview |-> <<>>, chunk_block |-> <<>>, chunkBlock |-> <<>>]

PlainCandidate(i) ==
    [id |-> IdOf(i), hasScore |-> TRUE, score |-> 52 + 4 * (i % 3),
     metadata |->
        Metadata(CASE i % 4 = 1 -> TypeDorm
                   [] i % 4 = 2 -> TypeStudyPlace
                   [] i % 4 = 3 -> TypeTextChunk
                   [] OTHER -> <<"f","a","q">>,
                 <<>>, <<>>, <<>>, <<>>, <<"t", " ">> \o IdOf(i))]

OddCandidate(i) ==
    CASE i % 4 = 1 ->
            \* the best score, no usable text, the key name:N
            [id |-> IdOf(i), hasScore |-> TRUE, score |-> 95,
             metadata |-> Metadata(TypeDorm, <<>>, <<>>, <<"N">>, <<>>,
                                   <<" ", "\n">>)]
      [] i % 4 = 2 ->
            \* the key name:N again, with text; the type is in md.kind
            [id |-> IdOf(i), hasScore |-> TRUE, score |-> 70,
             metadata |-> Metadata(<<>>, TypeStudyPlace, <<>>, <<"N">>,
                                   <<"S">>, <<"u">> \o IdOf(i))]
      [] i % 4 = 3 ->
            \* the key Dorm:7, shared by all of these; type in upper case
            [id |-> IdOf(i), hasScore |-> TRUE, score |-> 49 + i,
             metadata |-> Metadata(<<"D","o","r","m">>, <<>>, <<"7">>,
                                   <<"M">>, <<>>, <<"v">> \o IdOf(i))]
      [] OTHER ->
            \* the key section:S, no id and no score
            [id |-> <<>>, hasScore |-> FALSE, score |-> 0,
             metadata |-> Metadata(<<>>, TypeText, <<>>, <<>>, <<"S">>,
                                   <<"w">> \o IdOf(i))]

\* A match that carries no metadata at all, with a score above the others.
BareCandidate(i) ==
    [id |-> IdOf(i), hasScore |-> TRUE, score |-> 99,
     metadata |-> Metadata(<<>>, <<>>, <<>>, <<>>, <<>>, <<>>)]

Variants(i) ==
    {PlainCandidate(i), OddCandidate(i)}
    \cup (IF i <= 2 THEN {BareCandidate(i)} ELSE {})

RECURSIVE ListsOfLen(_)
ListsOfLen(n) ==
    IF n = 0 THEN {<<>>}
    ELSE {Append(l, c) : l \in ListsOfLen(n - 1), c \in Variants(n)}

Min(a, b) == IF a < b THEN a ELSE b

\* The index returns at most topK matches.
ListsUpTo(n) == UNION {ListsOfLen(k) : k \in 0..Min(n, TopK)}

\* res of pineconeQuery: res.matches may be absent (res?.matches || []).
QueryResults ==
    {[hasMatches |-> FALSE, matches |-> <<>>]}
    \cup {[hasMatches |-> TRUE, matches |-> l] : l \in ListsUpTo(MaxMatches)}

(***************************************************************************)
(* Inputs: request bodies and the replies of the language model.           *)
(***************************************************************************)
TextDorms == <<"d","o","r","m","s">>
TextWifi == <<" ","W","i","F","i","?">>
TextVisa == <<"v","i","s","a">>

\* An element of messages: null, or an object with a role and a content
\* that may be something other than a string.
Turn(role, content) ==
    [isObject |-> TRUE, role |-> role, contentIsString |-> TRUE,
     content |-> content]
NullTurn ==
    [isObject |-> FALSE, role |-> "", contentIsString |-> FALSE,
     content |-> <<>>]

Turns ==
    { Turn("user", TextWifi), Turn("user", TextVisa), Turn("user", <<>>),
      Turn("user", <<" ", "\n">>), Turn("assistant", TextDorms),
      Turn("system", TextDorms),
      [isObject |-> TRUE, role |-> "user", contentIsString |-> FALSE,
       content |-> <<>>],
      NullTurn }

RECURSIVE TurnLists(_)
TurnLists(n) ==
    IF n = 0 THEN {<<>>}
    ELSE {Append(l, t) : l \in TurnLists(n - 1), t \in Turns}

\* kind: "unparseable" (req.json() throws), "noMessages" (body?.messages
\* is undefined), "notArray" (messages is not an array), "array".
Bodies ==
    {[kind |-> k, messages |-> <<>>] :
        k \in {"unparseable", "noMessages", "notArray"}}
    \cup {[kind |-> "array", messages |-> l] :
            l \in UNION {TurnLists(n) : n \in 0..MaxTurns}}

\* message.content of a chat completion: a string, or absent.
RewriteReplies ==
    {Undefined, Str(<<>>), Str(<<" ">>), Str(TextDorms),
     Str(<<" ","q","u","i","e","t","\n">>)}

AnswerReplies == {Undefined, Str(<<" ">>), Str(<<" ","o","k"," ">>)}

(***************************************************************************)
(* The POST handler (route.ts:195-279).                                    *)
(***************************************************************************)
Operations == {"rewrite", "embed", "query", "synthesize"}
NoCalls == [op \in Operations |-> 0]
NoOutcome == [op \in Operations |-> "none"]

\* An answer is one of the two fixed strings, or the text synthesized.
CannedNoCandidates == [canned |-> "couldn't find relevant information", text |-> <<>>]
CannedNoUsable == [canned |-> "none had usable text", text |-> <<>>]
Synthesized(text) == [canned |-> "", text |-> text]
NoAnswer == Synthesized(<<>>)

\* An error response that also carries what was computed so far.
ErrorResponsePartial(status, message) ==
    [status |-> status, keys |-> {"error", "answer", "matches"},
     error |-> message, answer |-> NoAnswer, matches |-> <<>>]

\* NextResponse.json(...): keys are the fields of the JSON object.
ErrorResponse(status, message) ==
    [status |-> status, keys |-> {"error"}, error |-> message,
     answer |-> NoAnswer, matches |-> <<>>]
NothingFoundResponse(cannedAnswer) ==
    [status |-> 200, keys |-> {"answer", "matches", "rewrittenQuestion"},
     error |-> "", answer |-> cannedAnswer, matches |-> <<>>]
SuccessResponse(text, matches) ==
    [status |-> 200,
     keys |-> {"answer", "matches", "rewrittenQuestion", "intent"},
     error |-> "", answer |-> Synthesized(text), matches |-> matches]

\* !Array.isArray(messages) || messages.length === 0
InvalidMessages(b) == b.kind # "array" \/ Len(b.messages) = 0

LastTurn(b) == b.messages[Len(b.messages)]

\* The test of the last message without the trim.
InvalidLastNoTrim(b) ==
    LET last == LastTurn(b)
    IN  \/ ~last.isObject
        \/ last.role # "user"
        \/ ~last.contentIsString
        \/ last.content = <<>>

\* !last || last.role !== "user" || typeof last.content !== "string"
\*       || !last.content.trim()
InvalidLast(b) ==
    LET last == LastTurn(b)
    IN  \/ ~last.isObject
        \/ last.role # "user"
        \/ ~last.contentIsString
        \/ trim(last.content) = <<>>

\* No chat completion has replied yet.
NoReply == [op \in {"rewrite", "synthesize"} |-> Undefined]

(***************************************************************************)
(* The chat page (app/page.tsx): its state after the first render.         *)
(***************************************************************************)
MAX_MESSAGES_TO_SEND == 12

WelcomeId == <<"welcome">>
WelcomeText == <<"H","i","!">>

\* The synthetic welcome turn the page starts with.
WelcomeTurn == [id |-> WelcomeId, role |-> "assistant", content |-> WelcomeText]

\* useState(''), useState([welcome]), useState(false), useState(null)
InitialChat ==
    [input |-> <<>>, messages |-> <<WelcomeTurn>>, loading |-> FALSE,
     error |-> Undefined]

Init ==
    /\ body \in Bodies
    /\ pc = "Received"
    /\ pending = "none"
    /\ calls = NoCalls
    /\ outcome = NoOutcome
    /\ rewrittenQuestion = <<>>
    /\ intent = "none"
    /\ rawMatches = <<>>
    /\ boosted = <<>>
    /\ picked = <<>>
    /\ context = <<>>
    /\ answer = <<>>
    /\ embedInput = <<>>
    /\ responses = <<>>
    /\ arg = Undefined
    /\ ret = "none"
    /\ replied = NoReply
    /\ chat = InitialChat
    /\ payloadMessages = <<>>
    /\ inFlight = 0

pipeline == <<rewrittenQuestion, intent, rawMatches, boosted, picked,
              context, answer, embedInput>>
helper == <<arg, ret>>
client == <<chat, payloadMessages, inFlight>>

\* A response sent without leaving the handler.
ReturnAndFallThrough(response) ==
    /\ responses' = Append(responses, response)
    /\ pc' = pc
    /\ pending' = "none"

\* return NextResponse.json(...)
Return(response) ==
    /\ responses' = Append(responses, response)
    /\ pc' = "Responded"
    /\ pending' = "none"

\* await req.json() throws: the catch block answers.
ParseFails ==
    /\ pc = "Received" /\ pending = "none"
    /\ body.kind = "unparseable"
    /\ Return(ErrorResponse(500, "thrown"))
    /\ UNCHANGED <<body, calls, outcome, pipeline, helper, client, replied>>

RejectMessages ==
    /\ pc = "Received" /\ pending = "none"
    /\ body.kind # "unparseable"
    /\ InvalidMessages(body)
    /\ Return(ErrorResponse(400, "invalid messages"))
    /\ UNCHANGED <<body, calls, outcome, pipeline, helper, client, replied>>

RejectLast ==
    /\ pc = "Received" /\ pending = "none"
    /\ body.kind # "unparseable"
    /\ ~InvalidMessages(body)
    /\ InvalidLast(body)
    /\ Return(ErrorResponse(400, "invalid last message"))
    /\ UNCHANGED <<body, calls, outcome, pipeline, helper, client, replied>>

\* The handler starts an external operation and awaits it.
Call(op) ==
    /\ pending = "none"
    /\ pending' = op
    /\ calls' = [calls EXCEPT ![op] = @ + 1]
    /\ UNCHANGED outcome

\* The awaited operation returns a value.
Returned(op) ==
    /\ pending' = "none"
    /\ outcome' = [outcome EXCEPT ![op] = "returned"]

CallRewrite ==
    /\ pc = "Received"
    /\ body.kind # "unparseable"
    /\ ~InvalidMessages(body)
    /\ ~InvalidLast(body)
    /\ Call("rewrite")
    /\ UNCHANGED <<body, pc, pipeline, responses, helper, client, replied>>

\* The first n elements of the array.
SliceFirst(seq, n) ==
    IF Len(seq) <= n THEN seq ELSE SubSeq(seq, 1, n)

\* seq.slice(-n): the last n elements of the array, all if it has fewer.
SliceLast(seq, n) ==
    IF Len(seq) <= n THEN seq ELSE SubSeq(seq, Len(seq) - n + 1, Len(seq))

\* messages.slice(-12).map((m) => ({ role: m.role, content: m.content }))
\* reads m.role of each turn of the window: it throws on a null turn, and
\* the chat completion is then never requested.
HistoryWindow == 12
HistoryIsReadable(messages) ==
    LET window == SliceLast(messages, HistoryWindow)
    IN  \A i \in 1..Len(window) : window[i].isObject

\* A rewriter that returns the trimmed reply and nothing else.
rewriteToStandaloneNoFallback(messages, reply) ==
    IF reply.defined THEN trim(reply.s) ELSE <<>>

\* rewriteToStandalone's return value for the reply of the model
\* (route.ts:162-166).
rewriteToStandalone(messages, reply) ==
    Or(IF reply.defined THEN trim(reply.s) ELSE <<>>,
       Or(messages[Len(messages)].content, <<>>))

RewriteReturns ==
    /\ pc = "Received" /\ pending = "rewrite"
    /\ HistoryIsReadable(body.messages)
    /\ \E reply \in RewriteReplies :
        LET q == rewriteToStandalone(body.messages, reply)
        IN  /\ rewrittenQuestion' = q
            /\ intent' = inferIntent(Str(q))
            /\ replied' = [replied EXCEPT !["rewrite"] = reply]
    /\ pc' = "Rewritten"
    /\ Returned("rewrite")
    /\ UNCHANGED <<body, calls, rawMatches, boosted, picked, context, answer,
                   embedInput, responses, helper, client>>

CallEmbed ==
    /\ pc = "Rewritten"
    /\ Call("embed")
    /\ embedInput' = stripLoneSurrogates(rewrittenQuestion)
    /\ UNCHANGED <<body, pc, rewrittenQuestion, intent, rawMatches, boosted,
                   picked, context, answer, responses, helper, client, replied>>

EmbedReturns ==
    /\ pc = "Rewritten" /\ pending = "embed"
    /\ pc' = "Embedded"
    /\ Returned("embed")
    /\ UNCHANGED <<body, calls, pipeline, responses, helper, client, replied>>

CallQuery ==
    /\ pc = "Embedded"
    /\ Call("query")
    /\ UNCHANGED <<body, pc, pipeline, responses, helper, client, replied>>

QueryReturns ==
    /\ pc = "Embedded" /\ pending = "query"
    /\ \E res \in QueryResults :
        rawMatches' = IF res.hasMatches THEN res.matches ELSE <<>>
    /\ pc' = "Retrieved"
    /\ Returned("query")
    /\ UNCHANGED <<body, calls, rewrittenQuestion, intent, boosted, picked,
                   context, answer, embedInput, responses, helper, client, replied>>

\* if (!rawMatches.length) return ...
NoCandidates ==
    /\ pc = "Retrieved" /\ pending = "none"
    /\ rawMatches = <<>>
    /\ Return(NothingFoundResponse(CannedNoCandidates))
    /\ UNCHANGED <<body, calls, outcome, pipeline, helper, client, replied>>

Rank ==
    /\ pc = "Retrieved" /\ pending = "none"
    /\ rawMatches # <<>>
    /\ boosted' = Boosted(rawMatches, intent)
    /\ picked' = Picked(boosted')
    /\ pc' = "Ranked"
    /\ UNCHANGED <<body, pending, calls, outcome, rewrittenQuestion, intent,
                   rawMatches, context, answer, embedInput, responses,
                   helper, client, replied>>

\* if (!picked.length) return ...
NoUsableCandidates ==
    /\ pc = "Ranked" /\ pending = "none"
    /\ picked = <<>>
    /\ Return(NothingFoundResponse(CannedNoUsable))
    /\ UNCHANGED <<body, calls, outcome, pipeline, helper, client, replied>>

BuildContext ==
    /\ pc = "Ranked" /\ pending = "none"
    /\ picked # <<>>
    /\ context' = buildContext(picked)
    /\ pc' = "ContextBuilt"
    /\ UNCHANGED <<body, pending, calls, outcome, rewrittenQuestion, intent,
                   rawMatches, boosted, picked, answer, embedInput,
                   responses, helper, client, replied>>

CallSynthesize ==
    /\ pc = "ContextBuilt"
    /\ Call("synthesize")
    /\ UNCHANGED <<body, pc, pipeline, responses, helper, client, replied>>

\* A synthesizer that returns the reply as it came.
askLLMNoTrim(reply) == IF reply.defined THEN reply.s ELSE <<>>

\* askLLM's return value for the reply of the model (route.ts:192).
askLLM(reply) == IF reply.defined THEN trim(reply.s) ELSE <<>>

SynthesizeReturns ==
    /\ pc = "ContextBuilt" /\ pending = "synthesize"
    /\ \E reply \in AnswerReplies :
        /\ answer' = askLLM(reply)
        /\ replied' = [replied EXCEPT !["synthesize"] = reply]
    /\ pc' = "Answered"
    /\ Returned("synthesize")
    /\ UNCHANGED <<body, calls, rewrittenQuestion, intent, rawMatches,
                   boosted, picked, context, embedInput, responses, helper,
                   client>>

Respond ==
    /\ pc = "Answered" /\ pending = "none"
    /\ Return(SuccessResponse(answer, matchesToClient(picked, intent)))
    /\ UNCHANGED <<body, calls, outcome, pipeline, helper, client, replied>>

\* The awaited external call throws: the catch block answers (274-278).
ExternalThrows ==
    /\ pending # "none"
    /\ outcome' = [outcome EXCEPT ![pending] = "threw"]
    /\ Return(ErrorResponse(500, "thrown"))
    /\ UNCHANGED <<body, calls, pipeline, helper, client, replied>>

Next ==
    \/ ParseFails
    \/ RejectMessages
    \/ RejectLast
    \/ CallRewrite
    \/ RewriteReturns
    \/ CallEmbed
    \/ EmbedReturns
    \/ CallQuery
    \/ QueryReturns
    \/ NoCandidates
    \/ Rank
    \/ NoUsableCandidates
    \/ BuildContext
    \/ CallSynthesize
    \/ SynthesizeReturns
    \/ Respond
    \/ ExternalThrows

Spec == Init /\ [][Next]_vars

\* Every external call returns or throws, and the handler runs on.
FairSpec == Spec /\ WF_vars(Next)

(***************************************************************************)
(* The ranker on its own: the handler from the moment pineconeQuery has    *)
(* returned, for longer candidate lists than Spec draws.                   *)
(***************************************************************************)
RankQueries == {TextDorms, <<"q","u","i","e","t">>, TextVisa}

InitRank ==
    /\ body = [kind |-> "array", messages |-> <<Turn("user", TextVisa)>>]
    /\ pc = "Retrieved"
    /\ pending = "none"
    /\ calls = [NoCalls EXCEPT !["rewrite"] = 1, !["embed"] = 1, !["query"] = 1]
    /\ outcome = [NoOutcome EXCEPT !["rewrite"] = "returned",
                                   !["embed"] = "returned",
                                   !["query"] = "returned"]
    /\ rewrittenQuestion \in RankQueries
    /\ intent = inferIntent(Str(rewrittenQuestion))
    /\ rawMatches \in ListsUpTo(MaxRetrieved)
    /\ boosted = <<>>
    /\ picked = <<>>
    /\ context = <<>>
    /\ answer = <<>>
    /\ embedInput = stripLoneSurrogates(rewrittenQuestion)
    /\ responses = <<>>
    /\ arg = Undefined
    /\ ret = "none"
    /\ replied = NoReply
    /\ chat = InitialChat
    /\ payloadMessages = <<>>
    /\ inFlight = 0

NextRank ==
    \/ NoCandidates
    \/ Rank
    \/ NoUsableCandidates
    \/ BuildContext
    \/ CallSynthesize
    \/ SynthesizeReturns
    \/ Respond
    \/ ExternalThrows

SpecRank == InitRank /\ [][NextRank]_vars

(***************************************************************************)
(* The intent classifier on its own, applied to texts built of fragments   *)
(* and to the example texts.                                               *)
(***************************************************************************)
ExampleDorms ==
    <<"c","h","e","a","p"," ","d","o","r","m","s"," ","n","e","a","r"," ",
      "G","a","r","c","h","i","n","g">>
ExampleQuiet ==
    <<"q","u","i","e","t"," ","p","l","a","c","e"," ","w","i","t","h"," ",
      "w","i","f","i"," ","o","p","e","n"," ","l","a","t","e">>
ExampleBank ==
    <<"h","o","w"," ","d","o"," ","I"," ","o","p","e","n"," ","a"," ","b",
      "a","n","k"," ","a","c","c","o","u","n","t">>

Fragments ==
    HousingTerms \cup StudyTerms
    \cup { <<"D","O","R","M">>, <<"W","i","F","i">>, <<"d","o">>,
           <<"r","m">>, <<"o","p","e">>, <<"n">>, <<" ">>,
           <<"b","a","n","k">>, <<"c","u","r">> }

RECURSIVE TextsOf(_)
TextsOf(n) ==
    IF n = 0 THEN {<<>>}
    ELSE {t \o f : t \in TextsOf(n - 1), f \in Fragments}

IntentArgs ==
    {Undefined}
    \cup {Str(t) : t \in UNION {TextsOf(n) : n \in 0..MaxFragments}}
    \cup {Str(ExampleDorms), Str(ExampleQuiet), Str(ExampleBank)}

InitIntent ==
    /\ body = [kind |-> "noMessages", messages |-> <<>>]
    /\ pc = "helper"
    /\ pending = "none"
    /\ calls = NoCalls
    /\ outcome = NoOutcome
    /\ rewrittenQuestion = <<>>
    /\ intent = "none"
    /\ rawMatches = <<>>
    /\ boosted = <<>>
    /\ picked = <<>>
    /\ context = <<>>
    /\ answer = <<>>
    /\ embedInput = <<>>
    /\ responses = <<>>
    /\ arg \in IntentArgs
    /\ ret = "none"
    /\ replied = NoReply
    /\ chat = InitialChat
    /\ payloadMessages = <<>>
    /\ inFlight = 0

ClassifyIntent ==
    /\ pc = "helper"
    /\ ret' = inferIntent(arg)
    /\ pc' = "returned"
    /\ UNCHANGED <<body, pending, calls, outcome, pipeline, responses, arg, client,
                   replied>>

NextIntent == ClassifyIntent

SpecIntent == InitIntent /\ [][NextIntent]_vars

(***************************************************************************)
(* The sanitizer on its own, applied to texts of ordinary characters and   *)
(* surrogate code units in every arrangement.                              *)
(***************************************************************************)
Units == {"a", " "} \cup Surrogates

SanitizeArgs ==
    {Undefined}
    \cup {Str(t) : t \in UNION {[1..n -> Units] : n \in 0..MaxUnits}}

InitSanitize ==
    /\ body = [kind |-> "noMessages", messages |-> <<>>]
    /\ pc = "sanitizer"
    /\ pending = "none"
    /\ calls = NoCalls
    /\ outcome = NoOutcome
    /\ rewrittenQuestion = <<>>
    /\ intent = "none"
    /\ rawMatches = <<>>
    /\ boosted = <<>>
    /\ picked = <<>>
    /\ context = <<>>
    /\ answer = <<>>
    /\ embedInput = <<>>
    /\ responses = <<>>
    /\ arg \in SanitizeArgs
    /\ ret = <<>>
    /\ replied = NoReply
    /\ chat = InitialChat
    /\ payloadMessages = <<>>
    /\ inFlight = 0

\* stripLoneSurrogates(s) with its String(s || "").
Sanitize ==
    /\ pc = "sanitizer"
    /\ ret' = stripLoneSurrogates(OrEmpty(arg))
    /\ pc' = "sanitized"
    /\ UNCHANGED <<body, pending, calls, outcome, pipeline, responses, arg, client,
                   replied>>

NextSanitize == Sanitize

SpecSanitize == InitSanitize /\ [][NextSanitize]_vars

(***************************************************************************)
(* The chat page (app/page.tsx:86-164).  An event handler runs to its      *)
(* first await in one step and React renders before the next event, so     *)
(* sendMessage reads input, messages and loading as last set.              *)
(***************************************************************************)
\* What the user may have typed when a key or the button is pressed.
TypedTexts == {<<>>, <<" ">>, <<" ","y","o"," ">>}

AnswerGiven == <<"o","k">>
NoAnswerReturned == <<"N","o"," ","a","n","s","w","e","r">>
RequestFailed == <<"f","a","i","l","e","d">>

\* The bodies of the 200 responses the page may receive.
OkReplies ==
    {[answer |-> Undefined, matchesIsArray |-> FALSE, matches |-> <<>>],
     [answer |-> Str(AnswerGiven), matchesIsArray |-> TRUE,
      matches |-> <<"match">>]}

InitChat ==
    /\ body = [kind |-> "noMessages", messages |-> <<>>]
    /\ pc = "chat"
    /\ pending = "none"
    /\ calls = NoCalls
    /\ outcome = NoOutcome
    /\ rewrittenQuestion = <<>>
    /\ intent = "none"
    /\ rawMatches = <<>>
    /\ boosted = <<>>
    /\ picked = <<>>
    /\ context = <<>>
    /\ answer = <<>>
    /\ embedInput = <<>>
    /\ responses = <<>>
    /\ arg = Undefined
    /\ ret = "none"
    /\ replied = NoReply
    /\ chat = InitialChat
    /\ payloadMessages = <<>>
    /\ inFlight = 0

server == <<body, pc, pending, calls, outcome, pipeline, responses, replied,
            helper>>

\* onChange: setInput(e.target.value)
TypeInput ==
    /\ \E text \in TypedTexts :
        /\ text # chat.input
        /\ chat' = [chat EXCEPT !.input = text]
    /\ UNCHANGED <<payloadMessages, inFlight, server>>

IsNotWelcome(m) == m.id # WelcomeId

\* nextMessages.filter((m) => m.id !== 'welcome')
\*     .slice(-MAX_MESSAGES_TO_SEND)
\*     .map((m) => ({ role: m.role, content: m.content }))
PayloadOf(nextMessages) ==
    LET sent == SliceLast(SelectSeq(nextMessages, IsNotWelcome),
                          MAX_MESSAGES_TO_SEND)
    IN  [i \in 1..Len(sent) |->
            [role |-> sent[i].role, content |-> sent[i].content]]

\* The user turns of the conversation so far.
UserTurns(msgs) == {i \in 1..Len(msgs) : msgs[i].role = "user"}

\* sendMessage up to its await fetch(...).  The id carries the clock
\* read, here the number of turns so far.
SendMessage ==
    /\ Cardinality(UserTurns(chat.messages)) < MaxSends
    /\ LET question == trim(chat.input)
       IN  IF question = <<>> \/ chat.loading
           THEN UNCHANGED <<chat, payloadMessages, inFlight>>
           ELSE LET userMsg == [id |-> <<"user-", Len(chat.messages)>>,
                                role |-> "user", content |-> question]
                    nextMessages == Append(chat.messages, userMsg)
                IN  /\ chat' = [input |-> <<>>, error |-> Undefined,
                                loading |-> TRUE, messages |-> nextMessages]
                    /\ payloadMessages' = PayloadOf(nextMessages)
                    /\ inFlight' = inFlight + 1
    /\ UNCHANGED server

\* The response is ok: the assistant turn is appended, loading ends.
ReplyOk ==
    /\ inFlight > 0
    /\ \E data \in OkReplies :
        LET assistantMsg ==
                [id |-> <<"assistant-", Len(chat.messages)>>,
                 role |-> "assistant",
                 content |-> Or(OrEmpty(data.answer), NoAnswerReturned)]
        IN  chat' = [chat EXCEPT !.messages = Append(@, assistantMsg),
                                 !.loading = FALSE]
    /\ inFlight' = inFlight - 1
    /\ UNCHANGED <<payloadMessages, server>>

\* fetch rejects or the response is not ok: the catch block sets error.
ReplyFails ==
    /\ inFlight > 0
    /\ chat' = [chat EXCEPT !.error = Str(RequestFailed), !.loading = FALSE]
    /\ inFlight' = inFlight - 1
    /\ UNCHANGED <<payloadMessages, server>>

NextChat ==
    \/ TypeInput
    \/ SendMessage
    \/ ReplyOk
    \/ ReplyFails

SpecChat == InitChat /\ [][NextChat]_vars

(***************************************************************************)
(* Properties of the handler.                                              *)
(***************************************************************************)
Response == responses[1]

\* C1's precondition, in the claim's words: messages missing, not an array
\* or empty, or a last element whose role is not user or whose content is
\* not a string or is empty after trimming.
BodyIsInvalid ==
    \/ body.kind \in {"noMessages", "notArray"}
    \/ /\ body.kind = "array"
       /\ \/ body.messages = <<>>
          \/ LET last == body.messages[Len(body.messages)]
             IN  \/ last.role # "user"
                 \/ ~last.contentIsString
                 \/ \A k \in 1..Len(last.content) :
                        last.content[k] \in Whitespace

\* C1: a request with an invalid body is answered with status 400 and an
\* error field, and no external operation is ever invoked for it: the
\* handler never leaves Received except to respond, and while it has not
\* responded the rejection is the step it can take.
C1_InvalidBodyRejected ==
    BodyIsInvalid =>
        /\ calls = NoCalls
        /\ pending = "none"
        /\ pc \in {"Received", "Responded"}
        /\ pc = "Received" => ENABLED (RejectMessages \/ RejectLast)
        /\ pc = "Responded" =>
            /\ Len(responses) = 1
            /\ Response.status = 400
            /\ "error" \in Response.keys

\* A request whose last turn is a user turn of whitespace only has been
\* rejected.
C1_Witness ==
    /\ pc = "Responded"
    /\ body.kind = "array"
    /\ Len(body.messages) = 2
    /\ body.messages[2] = Turn("user", <<" ", "\n">>)
    /\ Response.status = 400
    /\ calls = NoCalls

HasUsableText(m) == trim(m.metadata.text) # <<>>

NoneUsable(matches) == \A i \in 1..Len(matches) : ~HasUsableText(matches[i])

\* C2: once rewrite, embed and the vector query have returned, if the query
\* gave no match, or only matches without usable text, answer synthesis is
\* never called and the response, when sent, is a 200 with the canned
\* answer of the case, an empty matches list and no error field.
C2_NothingFoundIsSuccess ==
    (outcome["query"] = "returned" /\ NoneUsable(rawMatches)) =>
        /\ calls["synthesize"] = 0
        /\ pc \in {"Retrieved", "Ranked", "Responded"}
        /\ pc # "Responded" => ENABLED Next
        /\ pc = "Responded" =>
            /\ Len(responses) = 1
            /\ Response.status = 200
            /\ Response.keys = {"answer", "matches", "rewrittenQuestion"}
            /\ Response.matches = <<>>
            /\ Response.answer =
                  IF rawMatches = <<>> THEN CannedNoCandidates
                                       ELSE CannedNoUsable

\* The index returned two matches, neither with usable text, and the
\* canned answer was sent.
C2_Witness ==
    /\ pc = "Responded"
    /\ outcome["query"] = "returned"
    /\ Len(rawMatches) = 2
    /\ NoneUsable(rawMatches)
    /\ Response.answer = CannedNoUsable

\* The external operations in pipeline order.
OpOrder == <<"rewrite", "embed", "query", "synthesize">>

OpIndex(op) == CHOOSE k \in 1..Len(OpOrder) : OpOrder[k] = op

Threw(op) == outcome[op] = "threw"

\* C3: every external operation is invoked at most once, and once one of
\* them has thrown the request has ended with a single status-500 response
\* whose only field is error; the failed call was made once, no operation
\* after it in the pipeline was invoked, and nothing further can happen.
C3_ThrowEndsRequest ==
    /\ \A op \in Operations : calls[op] <= 1
    /\ \A op \in Operations :
        Threw(op) =>
            /\ pc = "Responded"
            /\ pending = "none"
            /\ Len(responses) = 1
            /\ Response.status = 500
            /\ Response.keys = {"error"}
            /\ calls[op] = 1
            /\ \A later \in Operations :
                  OpIndex(later) > OpIndex(op) =>
                      calls[later] = 0 /\ outcome[later] = "none"
            /\ ~ENABLED Next

\* The vector query threw after rewrite and embed had returned.
C3_Witness ==
    /\ Threw("query")
    /\ outcome["rewrite"] = "returned"
    /\ outcome["embed"] = "returned"
    /\ Response.status = 500

Successor ==
    [s \in {"Received", "Rewritten", "Embedded", "Retrieved", "Ranked",
            "ContextBuilt", "Answered"} |->
        CASE s = "Received" -> "Rewritten"
          [] s = "Rewritten" -> "Embedded"
          [] s = "Embedded" -> "Retrieved"
          [] s = "Retrieved" -> "Ranked"
          [] s = "Ranked" -> "ContextBuilt"
          [] s = "ContextBuilt" -> "Answered"
          [] s = "Answered" -> "Responded"]

\* The state a step that starts an operation must be in, and the operation
\* that must have returned before it.
StartsIn ==
    [op \in Operations |->
        CASE op = "rewrite" -> "Received"
          [] op = "embed" -> "Rewritten"
          [] op = "query" -> "Embedded"
          [] op = "synthesize" -> "ContextBuilt"]

\* A step that leaves the path early is one of the terminal exits.
TerminalExit ==
    LET r == responses'[Len(responses')]
    IN  \/ pc = "Received" /\ r.status = 400 /\ calls = NoCalls
        \/ pc = "Retrieved" /\ r.status = 200
              /\ r.answer = CannedNoCandidates
        \/ pc = "Ranked" /\ r.status = 200 /\ r.answer = CannedNoUsable
        \/ r.status = 500

OrderedStep ==
    /\ pc' # pc =>
        /\ pc # "Responded"
        /\ \/ pc' = Successor[pc]
           \/ pc' = "Responded" /\ TerminalExit
    /\ responses' # responses =>
        /\ pc # "Responded" /\ pc' = "Responded"
        /\ responses = <<>> /\ Len(responses') = 1
    /\ (pending' # pending /\ pending' # "none") =>
        /\ pending = "none"
        /\ pc = StartsIn[pending']
        /\ \A op \in Operations :
              OpIndex(op) < OpIndex(pending') => outcome[op] = "returned"

\* C4: a request moves through Received, Rewritten, Embedded, Retrieved,
\* Ranked, ContextBuilt, Answered, Responded in that order, each external
\* operation starting only when the ones before it have returned; it leaves
\* the path only by a terminal exit (400, NoCandidates, NoUsableCandidates,
\* 500); and, every external call returning or throwing, it sends exactly
\* one response.
C4_OrderedAndOneResponse ==
    /\ [][OrderedStep]_vars
    /\ [](Len(responses) <= 1 /\ (pc = "Responded" <=> Len(responses) = 1))
    /\ <>(pc = "Responded" /\ Len(responses) = 1)

\* A request went the whole path and was answered.
C4_Witness ==
    /\ pc = "Responded"
    /\ Response.status = 200
    /\ "intent" \in Response.keys
    /\ \A op \in Operations : outcome[op] = "returned"

(***************************************************************************)
(* Properties of the ranker.                                               *)
(***************************************************************************)
\* Rank has run: it runs on a non-empty list only, and fills boosted.
Ranked == boosted # <<>>

PickedAt == 1..Len(picked)
RawAt == 1..Len(rawMatches)

\* The dedupe keys of the retrieved candidates that have usable text.
EligibleKeys ==
    {dedupeKey(rawMatches[j]) : j \in {k \in RawAt : HasUsableText(rawMatches[k])}}

\* C5: the selected set has at most 8 elements, no two of them share a
\* dedupe key, each has text that is non-empty after trimming, and no
\* retrieved candidate without such text is among them, whatever its score.
C5_SelectedSetBounded ==
    Ranked =>
        /\ Len(picked) <= 8
        /\ \A i, j \in PickedAt :
              i # j => dedupeKey(picked[i]) # dedupeKey(picked[j])
        /\ \A i \in PickedAt :
              \E k \in 1..Len(picked[i].metadata.text) :
                  picked[i].metadata.text[k] \notin Whitespace
        /\ \A j \in RawAt :
              ~HasUsableText(rawMatches[j]) =>
                  \A i \in PickedAt : picked[i].pos # j

\* Eight candidates were selected, none of them the candidate without
\* usable text that had the best score of all.
C5_Witness ==
    /\ Ranked
    /\ Len(picked) = 8
    /\ \E j \in RawAt :
          /\ ~HasUsableText(rawMatches[j])
          /\ \A i \in PickedAt : rawMatches[j].score > picked[i]._boostedScore

\* C6: with more than 8 eligible candidates exactly 8 are selected, and the
\* selected candidates are in non-increasing order of boostedScore, those
\* of equal boostedScore in the order the index returned them.
C6_CapAndOrder ==
    Ranked =>
        /\ Cardinality(EligibleKeys) > 8 => Len(picked) = 8
        /\ \A i \in PickedAt :
              i < Len(picked) =>
                  \/ picked[i]._boostedScore > picked[i + 1]._boostedScore
                  \/ /\ picked[i]._boostedScore = picked[i + 1]._boostedScore
                     /\ picked[i].pos < picked[i + 1].pos

\* More than 8 candidates were eligible, 8 were selected, and two
\* neighbours among them tie only because one of them was boosted.
C6_Witness ==
    /\ Ranked
    /\ Cardinality(EligibleKeys) > 8
    /\ Len(picked) = 8
    /\ \E i \in PickedAt :
          /\ i < Len(picked)
          /\ picked[i]._boostedScore = picked[i + 1]._boostedScore
          /\ picked[i].score # picked[i + 1].score

\* The dedupe key as C7 words it: (entity_type, entity_id), then name, then
\* section, then the raw id.
KeyOf(m) ==
    LET md == m.metadata
    IN  IF md.entity_type # <<>> /\ md.entity_id # <<>>
        THEN <<"entity", md.entity_type, md.entity_id>>
        ELSE IF md.name # <<>> THEN <<"name", md.name, <<>> >>
        ELSE IF md.section # <<>> THEN <<"section", md.section, <<>> >>
        ELSE <<"id", m.id, <<>> >>

\* The boosted score of the candidate the index returned at position j.
BoostedScoreAt(j) ==
    baseScore(rawMatches[j]) + scoreBoost(rawMatches[j], intent)

\* Rank order: higher boostedScore first, ties by original position.
RanksBefore(j, k) ==
    \/ BoostedScoreAt(j) > BoostedScoreAt(k)
    \/ BoostedScoreAt(j) = BoostedScoreAt(k) /\ j < k

\* C7 as stated: a selected candidate ranks before every other retrieved
\* candidate that has its key.
C7_FirstOfKeySurvives ==
    Ranked =>
        \A i \in PickedAt : \A j \in RawAt :
            (j # picked[i].pos /\ KeyOf(rawMatches[j]) = KeyOf(picked[i]))
                => RanksBefore(picked[i].pos, j)

\* C7 amended: a selected candidate ranks before every other retrieved
\* candidate that has its key and has usable text; a candidate without
\* usable text does not take the place of its key.
C7_FirstUsableOfKeySurvives ==
    Ranked =>
        \A i \in PickedAt : \A j \in RawAt :
            (/\ j # picked[i].pos
             /\ KeyOf(rawMatches[j]) = KeyOf(picked[i])
             /\ HasUsableText(rawMatches[j]))
                => RanksBefore(picked[i].pos, j)

\* A selected candidate has its key in common with a better-ranked
\* candidate without usable text and with a worse-ranked one with text,
\* which was not selected.
C7_Witness ==
    /\ Ranked
    /\ \E i \in PickedAt : \E j, k \in RawAt :
          /\ KeyOf(rawMatches[j]) = KeyOf(picked[i])
          /\ ~HasUsableText(rawMatches[j])
          /\ RanksBefore(j, picked[i].pos)
          /\ KeyOf(rawMatches[k]) = KeyOf(picked[i])
          /\ HasUsableText(rawMatches[k])
          /\ RanksBefore(picked[i].pos, k)
          /\ \A l \in PickedAt : picked[l].pos # k

\* The success response: the one that carries intent.
Succeeded == responses # <<>> /\ "intent" \in Response.keys

MatchAt == 1..Len(Response.matches)

\* The boost as C8 words it, for an intent and a type.
BoostFor(anIntent, type) ==
    IF anIntent = "dorm" /\ type = TypeDorm THEN 8
    ELSE IF anIntent = "study_place" /\ type = TypeStudyPlace THEN 8
    ELSE IF anIntent = "general" /\ type \in {TypeText, TypeTextChunk} THEN 3
    ELSE 0

\* C8 as stated: every Match of the success response has
\* boostedScore = score + boost for the intent and the type of the Match.
C8_BoostByType ==
    Succeeded =>
        \A i \in MatchAt :
            Response.matches[i].boostedScore =
                Response.matches[i].score
                + BoostFor(intent, Response.matches[i].type)

\* C8 amended: the type is compared in lower case.  Every Match has
\* boostedScore = score + boost for the intent and the lower-cased type,
\* which is the value the candidate was ranked by, and the matches are in
\* non-increasing order of boostedScore.
C8_BoostByLowerCasedType ==
    Succeeded =>
        /\ Len(Response.matches) = Len(picked)
        /\ \A i \in MatchAt :
              /\ Response.matches[i].boostedScore =
                    Response.matches[i].score
                    + BoostFor(intent, toLowerCase(Response.matches[i].type))
              /\ Response.matches[i].boostedScore = picked[i]._boostedScore
              /\ Response.matches[i].score = baseScore(rawMatches[picked[i].pos])
        /\ \A i \in MatchAt :
              i < Len(Response.matches) =>
                  Response.matches[i].boostedScore
                      >= Response.matches[i + 1].boostedScore

\* A success response with a boosted Match of each kind the intent allows,
\* one of them a Match whose type is not in lower case, and an unboosted one.
C8_Witness ==
    /\ Succeeded
    /\ \E i, j \in MatchAt :
          /\ Response.matches[i].boostedScore = Response.matches[i].score + 8
          /\ Response.matches[i].type # toLowerCase(Response.matches[i].type)
          /\ Response.matches[j].boostedScore = Response.matches[j].score

(***************************************************************************)
(* Properties of the intent classifier.                                    *)
(***************************************************************************)
Classified == pc = "returned"

\* C9: the classifier gives the intents the examples state.
C9_ExamplesClassified ==
    Classified =>
        /\ arg = Str(ExampleDorms) => ret = "dorm"
        /\ arg = Str(ExampleQuiet) => ret = "study_place"
        /\ arg = Str(ExampleBank) => ret = "general"

\* t occurs in s.
Contains(s, t) ==
    \E i \in 1..Len(s) :
        i + Len(t) - 1 <= Len(s) /\ SubSeq(s, i, i + Len(t) - 1) = t

ContainsAny(s, terms) == \E t \in terms : Contains(s, t)

\* The lower-cased text classified; a missing text is the empty text.
LowerCasedArg == toLowerCase(IF arg.defined THEN arg.s ELSE <<>>)

\* C10: the classifier returns an intent for every text; dorm when the
\* lower-cased text contains a housing term, whatever else it contains,
\* study_place when it contains a study term and no housing term, general
\* when it contains neither (the empty and the missing text included).
C10_IntentPriority ==
    Classified =>
        /\ ret \in Intents
        /\ ContainsAny(LowerCasedArg, HousingTerms) => ret = "dorm"
        /\ (/\ ~ContainsAny(LowerCasedArg, HousingTerms)
            /\ ContainsAny(LowerCasedArg, StudyTerms)) => ret = "study_place"
        /\ (/\ ~ContainsAny(LowerCasedArg, HousingTerms)
            /\ ~ContainsAny(LowerCasedArg, StudyTerms)) => ret = "general"
        /\ (~arg.defined \/ arg.s = <<>>) => ret = "general"

\* A text that starts with a study term and goes on with a housing term
\* in upper case was classified dorm.
C10_Witness ==
    /\ Classified
    /\ arg = Str(<<"w","i","f","i","D","O","R","M">>)
    /\ ret = "dorm"

(***************************************************************************)
(* Properties of the sanitizer.                                            *)
(***************************************************************************)
Sanitized == pc = "sanitized"

\* The code unit at k is one half of a well-formed pair: a high surrogate
\* directly followed by a low one, or the low one of such a pair.
PairedAt(s, k) ==
    \/ s[k] \in HighSurrogates /\ k < Len(s) /\ s[k + 1] \in LowSurrogates
    \/ s[k] \in LowSurrogates /\ k > 1 /\ s[k - 1] \in HighSurrogates

UnpairedAt(s, k) == s[k] \in Surrogates /\ ~PairedAt(s, k)

\* s without its unpaired surrogates, everything else in its order.
WithoutUnpaired(s) ==
    LET kept == {k \in 1..Len(s) : ~UnpairedAt(s, k)}
    IN  [j \in 1..Cardinality(kept) |-> s[Nth(kept, j)]]

\* C11: the sanitizer returns its input with exactly the unpaired
\* surrogates removed: well-formed pairs and ordinary characters are kept
\* in their order, and the output has no unpaired surrogate.
C11_OnlyUnpairedRemoved ==
    Sanitized =>
        /\ ret = WithoutUnpaired(OrEmpty(arg))
        /\ \A k \in 1..Len(ret) : ~UnpairedAt(ret, k)

(***************************************************************************)
(* Properties of the rewrite and of the success response.                  *)
(***************************************************************************)
Rewrote == outcome["rewrite"] = "returned"

\* The reply of the rewrite call is missing or empty after trimming.
RewriteGaveNothing ==
    ~replied["rewrite"].defined \/ trim(replied["rewrite"].s) = <<>>

\* C12: once the rewrite call of a validated request has returned, the
\* standalone query is not the empty string; it is the raw content of the
\* last turn when the reply is missing or empty after trimming, and the
\* trimmed reply otherwise; it is the text intent classification was
\* given and the text the embedder was given.
C12_QueryNeverEmpty ==
    Rewrote =>
        /\ rewrittenQuestion # <<>>
        /\ RewriteGaveNothing => rewrittenQuestion = LastTurn(body).content
        /\ ~RewriteGaveNothing =>
               rewrittenQuestion = trim(replied["rewrite"].s)
        /\ intent = inferIntent(Str(rewrittenQuestion))
        /\ calls["embed"] > 0 =>
               embedInput = stripLoneSurrogates(rewrittenQuestion)

\* The rewrite replied with whitespace, and the raw last turn, its leading
\* blank included, was classified and embedded.
C12_Witness ==
    /\ Rewrote
    /\ replied["rewrite"] = Str(<<" ">>)
    /\ rewrittenQuestion = TextWifi
    /\ intent = "study_place"
    /\ outcome["embed"] = "returned"
    /\ embedInput = TextWifi

AllCallsReturned == \A op \in Operations : outcome[op] = "returned"

SomeUsable(matches) == \E i \in 1..Len(matches) : HasUsableText(matches[i])

\* C13 as stated: when every external call has returned and the index gave
\* a candidate with usable text, the response sent is a 200 with a
\* non-empty answer and at least one match.
C13_AnswerAndMatches ==
    (pc = "Responded" /\ AllCallsReturned /\ SomeUsable(rawMatches)) =>
        /\ Response.status = 200
        /\ Response.answer.text # <<>>
        /\ Len(Response.matches) >= 1

\* The reply of the synthesis call is missing or empty after trimming.
SynthesisGaveNothing ==
    ~replied["synthesize"].defined \/ trim(replied["synthesize"].s) = <<>>

\* C13, amended: when every external call has returned and the index gave
\* a candidate with usable text, the one response sent is the 200 success
\* response; its matches are the selected candidates, at least 1 and at
\* most 8; its answer is the reply of the synthesis call trimmed, which is
\* the empty string when that reply is missing or only whitespace and is
\* non-empty otherwise.
C13_MatchesAndTrimmedAnswer ==
    (pc = "Responded" /\ AllCallsReturned /\ SomeUsable(rawMatches)) =>
        /\ Len(responses) = 1
        /\ Response.status = 200
        /\ Response.keys = {"answer", "matches", "rewrittenQuestion", "intent"}
        /\ Len(Response.matches) = Len(picked)
        /\ Len(Response.matches) \in 1..MaxPicked
        /\ Response.answer.canned = ""
        /\ SynthesisGaveNothing => Response.answer.text = <<>>
        /\ ~SynthesisGaveNothing =>
              /\ Response.answer.text = trim(replied["synthesize"].s)
              /\ Response.answer.text # <<>>

\* A padded reply was sent trimmed, with two matches.
C13_Witness ==
    /\ pc = "Responded"
    /\ AllCallsReturned
    /\ SomeUsable(rawMatches)
    /\ replied["synthesize"] = Str(<<" ","o","k"," ">>)
    /\ Response.answer.text = <<"o","k">>
    /\ Len(Response.matches) = 2

(***************************************************************************)
(* Properties of the chat page.                                            *)
(***************************************************************************)
\* A request is posted in this step.
Posts == inFlight' > inFlight

\* The request body the endpoint parses from a posted payload.
AsBody(payload) ==
    [kind |-> "array",
     messages |-> [i \in 1..Len(payload) |->
                      Turn(payload[i].role, payload[i].content)]]

\* The conversation: the turns of the page after the welcome turn.
Conversation(msgs) == Tail(msgs)

\* C14: whenever the page posts a request, none is loading or in flight;
\* the payload has at most 12 turns, none of them the welcome turn; it is
\* the last turns of the conversation in their order; its last turn is
\* the user turn just submitted, the trimmed input, which is non-empty;
\* and the endpoint's validation accepts it.
C14_ClientPayload ==
    [][Posts =>
         LET conv == Conversation(chat'.messages)
             sent == payloadMessages'
             k == Len(sent)
         IN  /\ inFlight = 0 /\ ~chat.loading /\ chat'.loading
             /\ chat'.messages[1] = WelcomeTurn
             /\ k >= 1 /\ k <= 12
             /\ k = Min(12, Len(conv))
             /\ \A i \in 1..k :
                    /\ sent[i] = [role |-> conv[Len(conv) - k + i].role,
                                  content |-> conv[Len(conv) - k + i].content]
                    /\ conv[Len(conv) - k + i].id # WelcomeId
                    /\ sent[i] # [role |-> WelcomeTurn.role,
                                  content |-> WelcomeTurn.content]
             /\ sent[k] = [role |-> "user", content |-> trim(chat.input)]
             /\ trim(sent[k].content) # <<>>
             /\ ~InvalidMessages(AsBody(sent))
             /\ ~InvalidLast(AsBody(sent))]_vars

\* A request is loading whose payload is the last 12 of a longer
\* conversation, in which an earlier request had failed: two user turns
\* follow each other in the payload.
C14_Witness ==
    /\ chat.loading /\ inFlight = 1
    /\ Len(payloadMessages) = 12
    /\ Len(Conversation(chat.messages)) > 12
    /\ \E i \in 1..11 :
          /\ payloadMessages[i].role = "user"
          /\ payloadMessages[i + 1].role = "user"
    /\ \E i \in 1..12 : payloadMessages[i].content = NoAnswerReturned

====
